---- MODULE Spec2Model ----
(***************************************************************************)
(* Model of lib/routes/twitter/api/web-api/api.ts: the identity lookup     *)
(* (getUserData), the per-source memoisation (cacheTryGet), the three      *)
(* timeline sources used by getUserTweets, and getUserTweets itself        *)
(* (fan-out, accumulation cache read, merge / filter / dedup / sort /      *)
(* truncate, write-through).  Every `await` of the code is a point where   *)
(* the steps of other requests and cache expiry may interleave.            *)
(***************************************************************************)
EXTENDS Integers, Sequences, FiniteSets, TLC

\* ------------------------------------------------------------------ bounds
MaxCycles == 2      \* getUserTweets invocations in one behaviour
MaxExpiries == 1    \* cache entries that expire in one behaviour

\* --------------------------------------------------------------- constants
PageSize == 20      \* .slice(0, 20)

Requests == {1, 2}                  \* requests that may overlap in time

Undefined == "undefined"            \* JS undefined (also its template text)

Primary == "UserTweets"
Media   == "UserMedia"
Replies == "UserTweetsAndReplies"
Sources == {Primary, Media, Replies}
FanOut  == {Primary, Media}         \* [_getUserTweets, getUserMedia].map(...)
Who     == {"main"} \cup Sources

\* ------------------------------------------------------- ids as id strings
\* id_str is a decimal string: modelled as its sequence of digits.
RECURSIVE Str(_)
Str(n) == IF n < 10 THEN <<n>> ELSE Append(Str(n \div 10), n % 10)

\* BigInt(s): the exact integer a decimal string denotes.
RECURSIVE BigInt(_)
BigInt(s) == IF s = <<>> THEN 0
             ELSE 10 * BigInt(SubSeq(s, 1, Len(s) - 1)) + s[Len(s)]

\* a tweet as gatherLegacyFromData hands it over; `via` stands for the
\* source-specific payload (which endpoint produced this representation)
Tw(n, reply, via) ==
    [id_str |-> Str(n), in_reply_to_user_id_str |-> reply, via |-> via]
NoIdTw(via) ==
    [id_str |-> <<>>, in_reply_to_user_id_str |-> "", via |-> via]

RECURSIVE Range(_, _, _)
Range(hi, lo, via) ==
    IF hi < lo THEN <<>> ELSE <<Tw(hi, "", via)>> \o Range(hi - 1, lo, via)

\* ------------------------------------------------------------ the upstream
\* identity lookup: the payload UserByScreenName / UserByRestId answers
\* (data.user.result.rest_id, data.user_result.result.rest_id, or neither)
UserPayload(shape, rest_id) == [shape |-> shape, rest_id |-> rest_id]
Directory ==
    [abc          |-> UserPayload("user", "111"),
     doesnotexist |-> UserPayload("user", Undefined)]
Handles == DOMAIN Directory
Sentinel == UserPayload("empty", Undefined)   \* the negative sentinel ''


\* the calls made in a behaviour: (handle, JSON.stringify(params))
Calls == {<<"abc", "{}">>, <<"abc", "{\"count\":5}">>, <<"doesnotexist", "{}">>}

\* what the timeline endpoints hold: the normalised items a request of the
\* endpoint returns when it does not fail (gatherLegacyFromData of the pages)
PrimaryFeed == <<Tw(50, "", Primary), Tw(40, "", Primary), Tw(30, "", Primary)>>
MediaFeed   == <<Tw(45, "", Media)>>
RepliesFeed == <<Tw(60, "111", Replies), Tw(55, "222", Replies),
                 NoIdTw(Replies), Tw(50, "", Replies), Tw(9, "", Replies)>>
Feed(source) ==
    CASE source = Primary -> PrimaryFeed
      [] source = Media   -> MediaFeed
      [] source = Replies -> RepliesFeed

\* ------------------------------------------------------------ pure helpers
\* JSON.stringify / JSON.parse of the accumulation payload: a stored text
\* either parses or not, and a parsed value is an array or something else
Text(present, valid, array, list) ==
    [present |-> present, valid |-> valid, array |-> array, list |-> list]
Stringify(list) == Text(TRUE, TRUE, TRUE, list)
Absent   == Text(FALSE, FALSE, FALSE, <<>>)     \* cache.get found nothing
Garbage  == Text(TRUE, FALSE, FALSE, <<>>)      \* JSON.parse throws
NotArray == Text(TRUE, TRUE, FALSE, <<>>)       \* parses, Array.isArray fails

Ids(list) == [i \in 1..Len(list) |-> BigInt(list[i].id_str)]

RECURSIVE Filter(_, _)
\* variant: replies to other accounts are not dropped
KeepEveryReply(tweet, rest_id) == TRUE
ReplyFilter(tweet, rest_id) ==
    \/ tweet.in_reply_to_user_id_str = ""
    \/ tweet.in_reply_to_user_id_str = rest_id
HasId(tweet) == tweet.id_str # <<>>
Filter(list, rest_id) ==
    IF list = <<>> THEN <<>>
    ELSE LET t == Head(list) rest == Filter(Tail(list), rest_id)
         IN  IF ReplyFilter(t, rest_id) /\ HasId(t) THEN <<t>> \o rest ELSE rest

\* the idSet pass: keeps the first tweet of every id_str
RECURSIVE DedupFrom(_, _)
DedupFrom(list, idSet) ==
    IF list = <<>> THEN <<>>
    ELSE LET t == Head(list)
         IN  IF t.id_str \in idSet THEN DedupFrom(Tail(list), idSet)
             ELSE <<t>> \o DedupFrom(Tail(list), idSet \cup {t.id_str})
\* variant: the idSet pass is missing
NoDedup(list) == list
\* variant: the last tweet of every id_str is kept, not the first
RECURSIVE Reverse(_)
Reverse(list) ==
    IF list = <<>> THEN <<>> ELSE Append(Reverse(Tail(list)), Head(list))
DedupKeepingLast(list) == Reverse(DedupFrom(Reverse(list), {}))
Dedup(list) == DedupFrom(list, {})

\* variant: the comparator compares the id strings, not their BigInt values
RECURSIVE StringLess(_, _)
StringLess(s, t) ==
    IF t = <<>> THEN FALSE
    ELSE IF s = <<>> THEN TRUE
    ELSE IF Head(s) # Head(t) THEN Head(s) < Head(t)
    ELSE StringLess(Tail(s), Tail(t))
CompareAsStrings(a, b) ==
    IF StringLess(a.id_str, b.id_str) THEN 1
    ELSE IF StringLess(b.id_str, a.id_str) THEN -1 ELSE 0

\* the comparator of .sort: positive when b must come before a
Compare(a, b) ==
    LET aId == BigInt(a.id_str) bId == BigInt(b.id_str)
    IN  IF bId > aId THEN 1 ELSE IF bId < aId THEN -1 ELSE 0

\* Array.prototype.sort is stable: x goes after every element it does not beat
RECURSIVE InsertSorted(_, _)
InsertSorted(sorted, x) ==
    IF sorted = <<>> THEN <<x>>
    ELSE IF Compare(Head(sorted), x) > 0 THEN <<x>> \o sorted
    ELSE <<Head(sorted)>> \o InsertSorted(Tail(sorted), x)
RECURSIVE SortDesc(_)
SortDesc(list) ==
    IF list = <<>> THEN <<>>
    ELSE InsertSorted(SortDesc(SubSeq(list, 1, Len(list) - 1)), list[Len(list)])

\* variant: the list is not cut
NoSlice(list, n) == list
Slice(list, n) == SubSeq(list, 1, IF Len(list) < n THEN Len(list) ELSE n)

\* variant: the stored list is not used
BackfillNothing(cacheValue, tweets) == tweets

\* lines 100-109: the stored list goes in front of the fetched tweets
Backfill(cacheValue, tweets) ==
    IF cacheValue.present /\ cacheValue.valid /\ cacheValue.array
       /\ Len(cacheValue.list) > 0
    THEN cacheValue.list \o tweets
    ELSE tweets

\* lines 111-134
Pipeline(tweets, rest_id) ==
    Slice(SortDesc(Dedup(Filter(tweets, rest_id))), PageSize)


\* ------------------------------------------------------------------- cache
\* key strings, as the tuple of the parts the code joins
UserDataKey(handle) == <<"twitter-userdata", handle>>
\* func.name of the producer handed to cacheTryGet: every caller passes an
\* anonymous arrow function as an argument, whose name is the empty string
FuncName(source) == ""
SourceKey(id, source, paramsString) ==
    <<"twitter", id, FuncName(source), paramsString>>
AccKey(rest_id) == <<"twitter:user:tweets-cache", rest_id>>

ContentExpire == "contentExpire"
RouteExpire   == "routeExpire"
NoExpire      == "none"

EmptyCache == [k \in {} |-> Absent]
Has(c, key) == key \in DOMAIN c
CacheSet(c, key, value, ttl) ==
    [k \in DOMAIN c \cup {key} |->
        IF k = key THEN [v |-> value, ttl |-> ttl] ELSE c[k]]
CacheDel(c, key) == [k \in DOMAIN c \ {key} |-> c[k]]
CacheGet(c, key) == IF Has(c, key) THEN c[key].v ELSE Absent

\* ------------------------------------------------------ reading the payload
\* line 72, left operand:  data?.user?.result?.rest_id
RestIdUser(v) == IF v.shape = "user" THEN v.rest_id ELSE Undefined
\* line 72, right operand: data?.user_result?.result?.rest_id
RestIdUserResult(v) == IF v.shape = "user_result" THEN v.rest_id ELSE Undefined
\* line 46: (data?.user || data?.user_result)?.result?.rest_id
RestId(v) == IF v.shape \in {"user", "user_result"} THEN v.rest_id ELSE Undefined

\* ------------------------------------------------------------------- state
VARIABLES
    cache,      \* the key-value store: key -> [v, ttl]
    req,        \* per request: the locals of getUserTweets
    th,         \* per request and call (main, or one source): where it stands
    cycles,     \* getUserTweets invocations so far
    expiries,   \* entries expired so far
    last        \* history: the cycle that returned last, while nothing else
                \* has happened since it started

vars == <<cache, req, th, cycles, expiries, last>>

\* a call: pc, its id (line 46), the value it returned, the error it threw,
\* and (history) how the timeline requests of its producer ended, if made
Thread(pc, id, val, err) ==
    [pc |-> pc, id |-> id, val |-> val, err |-> err, up |-> ""]
IdleThread == Thread("idle", Undefined, <<>>, "")
ReadyThread == Thread("ud_get", Undefined, <<>>, "")

\* history of one cycle: the call, the ids it returned, the sources whose
\* timeline requests failed and those whose requests answered; live is FALSE
\* when there is no such cycle
History(live, call, ids, failed, answered) ==
    [live |-> live, call |-> call, ids |-> ids, failed |-> failed,
     answered |-> answered]
NoHistory == History(FALSE, <<"abc", "{}">>, <<>>, {}, {})

\* the locals of getUserTweets, and two history fields: quiet (no entry has
\* expired and no other request has run since this one started) and prev
\* (the cycle that returned immediately before this one started)
NewReq(handle, params, status, quiet, prev) ==
    [handle |-> handle, params |-> params, status |-> status,
     second |-> FALSE, rest_id |-> Undefined, tweets |-> <<>>,
     cacheValue |-> Absent, result |-> <<>>, error |-> "", wrote |-> FALSE,
     quiet |-> quiet, prev |-> prev]
IdleReq == NewReq("abc", "{}", "idle", FALSE, NoHistory)
Disturbed(q) == [r \in Requests |-> [q[r] EXCEPT !.quiet = FALSE, !.prev = NoHistory]]

Settled(t) == t.pc \in {"ok", "fail"}
Running(r) == req[r].status = "running"

\* what the accumulation entry of identity 111 may hold at the start: nothing,
\* an unparsable text, a text that parses to something other than an array,
\* or a list an earlier cycle wrote
Stored == Range(38, 20, Media)
InitialAccumulation == {Absent, Garbage, NotArray, Stringify(Stored)}

Init ==
    /\ \E a \in InitialAccumulation :
          cache = IF a.present
                  THEN CacheSet(EmptyCache, AccKey("111"), a, NoExpire)
                  ELSE EmptyCache
    /\ req = [r \in Requests |-> IdleReq]
    /\ th = [r \in Requests |-> [w \in Who |-> IdleThread]]
    /\ cycles = 0
    /\ expiries = 0
    /\ last = NoHistory

\* ---------------------------------------------------------- getUserTweets
\* line 70-72: the call starts and issues its first getUserData
Start(r, handle, params) ==
    /\ ~Running(r)
    /\ \A q \in Requests : q < r => Running(q)
    /\ cycles < MaxCycles
    /\ cycles' = cycles + 1
    /\ LET alone == \A q \in Requests : ~Running(q)
       IN  req' = [Disturbed(req) EXCEPT ![r] =
                      NewReq(handle, params, "running", alone,
                             IF alone THEN last ELSE NoHistory)]
    /\ th' = [th EXCEPT ![r] =
                [w \in Who |-> IF w = "main" THEN ReadyThread ELSE IdleThread]]
    /\ last' = NoHistory
    /\ UNCHANGED <<cache, expiries>>

\* What getUserTweets does, without a further await, once calls have settled:
\*   lines 86-90: Promise.all over the fan-out has settled, so
\*                getUserTweetsAndReplies is called;
\*   lines 98-99: that call has settled, so cache.get(cacheKey) is issued.
\* variant: the fan-out is left as soon as one of its calls has settled
FanOutFirstSettled(t) ==
    t["main"].pc = "fanout" /\ \E w \in FanOut : Settled(t[w])
FanOutSettled(t) ==
    t["main"].pc = "fanout" /\ \A w \in FanOut : Settled(t[w])
RepliesSettled(t) ==
    t["main"].pc = "replies" /\ Settled(t[Replies])

ContinueTh(t) ==
    IF FanOutSettled(t)
    THEN [t EXCEPT !["main"].pc = "replies", ![Replies] = ReadyThread]
    ELSE IF RepliesSettled(t) THEN [t EXCEPT !["main"].pc = "merge"]
    ELSE t
ContinueReq(t, q, c) ==
    IF RepliesSettled(t)
    THEN [q EXCEPT !.cacheValue = CacheGet(c, AccKey(q.rest_id))]
    ELSE q

\* the step's effect (threads t, locals q, cache c) followed by the above
Effect(t, q, c) ==
    /\ th' = [r \in Requests |-> ContinueTh(t[r])]
    /\ req' = [r \in Requests |-> ContinueReq(t[r], q[r], c)]
    /\ cache' = c

\* ------------------------------------------------- getUserData (lines 9-42)
\* The outcome of one getUserData call reaches the call that made it and the
\* calls that joined its in-flight lookup.  What each of them does next:
\*   main (line 72): take rest_id from the first operand, or call getUserData
\*                   again for the second operand; then start the fan-out;
\*   a source (lines 45-50): take id, or store the sentinel and throw.
MainResolves(r, ok, v) ==
    ok /\ (req[r].second \/ RestIdUser(v) # Undefined)

AfterUserDataReq(r, ok, v) ==
    IF ~ok THEN [req[r] EXCEPT !.status = "raised", !.error = "Error"]
    ELSE IF req[r].second THEN [req[r] EXCEPT !.rest_id = RestIdUserResult(v)]
    ELSE IF RestIdUser(v) # Undefined THEN [req[r] EXCEPT !.rest_id = RestIdUser(v)]
    ELSE [req[r] EXCEPT !.second = TRUE]

AfterUserDataMain(r, ok, v) ==
    IF ~ok THEN Thread("done", Undefined, <<>>, "Error")
    ELSE IF MainResolves(r, ok, v) THEN Thread("fanout", Undefined, <<>>, "")
    ELSE ReadyThread

AfterUserDataSource(ok, v) ==
    IF ~ok THEN Thread("fail", Undefined, <<>>, "Error")
    ELSE IF RestId(v) = Undefined THEN Thread("fail", Undefined, <<>>, "NotFound")
    ELSE Thread("src_get", RestId(v), <<>>, "")

\* variant: cacheTryGet throws without storing the sentinel
DeliverWithoutSentinel(receivers, handle, ok, v, c) ==
    Effect([r \in Requests |-> [w \in Who |->
                IF <<r, w>> \in receivers
                THEN IF w = "main" THEN AfterUserDataMain(r, ok, v)
                     ELSE AfterUserDataSource(ok, v)
                ELSE IF w \in FanOut /\ <<r, "main">> \in receivers
                        /\ MainResolves(r, ok, v)
                THEN ReadyThread
                ELSE th[r][w]]],
           [r \in Requests |->
                IF <<r, "main">> \in receivers
                THEN AfterUserDataReq(r, ok, v) ELSE req[r]],
           c)

Deliver(receivers, handle, ok, v, c) ==
    Effect([r \in Requests |-> [w \in Who |->
                IF <<r, w>> \in receivers
                THEN IF w = "main" THEN AfterUserDataMain(r, ok, v)
                     ELSE AfterUserDataSource(ok, v)
                ELSE IF w \in FanOut /\ <<r, "main">> \in receivers
                        /\ MainResolves(r, ok, v)
                THEN ReadyThread
                ELSE th[r][w]]],
           [r \in Requests |->
                IF <<r, "main">> \in receivers
                THEN AfterUserDataReq(r, ok, v) ELSE req[r]],
           IF ok /\ RestId(v) = Undefined /\ \E x \in receivers : x[2] \in Sources
           THEN CacheSet(c, UserDataKey(handle), Sentinel, ContentExpire)
           ELSE c)

Fetching(handle) ==
    {x \in Requests \X Who :
        th[x[1]][x[2]].pc = "ud_fetch" /\ req[x[1]].handle = handle}
Waiting(handle) ==
    {x \in Requests \X Who :
        th[x[1]][x[2]].pc = "ud_wait" /\ req[x[1]].handle = handle}

\* cache.tryGet finds the identity entry
UserDataHit(r, w) ==
    /\ th[r][w].pc = "ud_get"
    /\ Has(cache, UserDataKey(req[r].handle))
    /\ Deliver({<<r, w>>}, req[r].handle, TRUE,
               cache[UserDataKey(req[r].handle)].v, cache)
    /\ UNCHANGED <<cycles, expiries, last>>

\* cache.tryGet misses and starts the upstream identity lookup
UserDataMiss(r, w) ==
    /\ th[r][w].pc = "ud_get"
    /\ ~Has(cache, UserDataKey(req[r].handle))
    /\ Fetching(req[r].handle) = {}
    /\ th' = [th EXCEPT ![r][w].pc = "ud_fetch"]
    /\ UNCHANGED <<cache, req, cycles, expiries, last>>

\* cache.tryGet misses while a lookup of the same key is in flight: join it
UserDataJoin(r, w) ==
    /\ th[r][w].pc = "ud_get"
    /\ ~Has(cache, UserDataKey(req[r].handle))
    /\ Fetching(req[r].handle) # {}
    /\ th' = [th EXCEPT ![r][w].pc = "ud_wait"]
    /\ UNCHANGED <<cache, req, cycles, expiries, last>>

\* the upstream identity lookup answers: the payload is stored and returned
UserDataFetched(r, w) ==
    /\ th[r][w].pc = "ud_fetch"
    /\ LET handle == req[r].handle
       IN  Deliver({<<r, w>>} \cup Waiting(handle), handle, TRUE,
                   Directory[handle],
                   CacheSet(cache, UserDataKey(handle), Directory[handle],
                            ContentExpire))
    /\ UNCHANGED <<cycles, expiries, last>>

\* the upstream identity lookup throws: nothing is stored
UserDataFailed(r, w) ==
    /\ th[r][w].pc = "ud_fetch"
    /\ Deliver({<<r, w>>} \cup Waiting(req[r].handle), req[r].handle, FALSE,
               Sentinel, cache)
    /\ UNCHANGED <<cycles, expiries, last>>

\* ------------------------------------------- cacheTryGet, line 51-53, and
\* the producers of _getUserTweets, getUserMedia, getUserTweetsAndReplies
KeyOf(r, w) == SourceKey(th[r][w].id, w, req[r].params)

\* lines 78-81 / 90-93: the call returned, its items are pushed onto tweets
Returned(r, w, items, c) ==
    Effect([th EXCEPT ![r][w].pc = "ok", ![r][w].val = items,
                      ![r][w].up = IF th[r][w].pc = "src_get" THEN "" ELSE "ok"],
           [req EXCEPT ![r].tweets = @ \o items], c)

\* variant: a call that throws takes the tweets collected so far with it
ThrewDroppingTweets(r, w, err) ==
    Effect([th EXCEPT ![r][w].pc = "fail", ![r][w].err = err,
                      ![r][w].up = "fail"],
           [req EXCEPT ![r].tweets = <<>>], cache)

\* lines 82-84 / 94-96: the call threw, the catch logs and goes on
Threw(r, w, err) ==
    Effect([th EXCEPT ![r][w].pc = "fail", ![r][w].err = err,
                      ![r][w].up = "fail"], req, cache)

\* cache.tryGet(key, producer, routeExpire, false) finds an entry
SourceHit(r, w) ==
    /\ th[r][w].pc = "src_get"
    /\ Has(cache, KeyOf(r, w))
    /\ Returned(r, w, cache[KeyOf(r, w)].v, cache)
    /\ UNCHANGED <<cycles, expiries, last>>

\* ... finds none and calls the producer; the last argument being false,
\* a producer already in flight for the key is not waited for
SourceMiss(r, w) ==
    /\ th[r][w].pc = "src_get"
    /\ ~Has(cache, KeyOf(r, w))
    /\ th' = [th EXCEPT ![r][w].pc = "src_fetch"]
    /\ UNCHANGED <<cache, req, cycles, expiries, last>>

\* the producer's paginationTweets + gatherLegacyFromData give the items
\* (lines 58-67, 142-153); tryGet stores them under routeExpire
SourceFetched(r, w) ==
    /\ w # Media
    /\ th[r][w].pc = "src_fetch"
    /\ Returned(r, w, Feed(w), CacheSet(cache, KeyOf(r, w), Feed(w), RouteExpire))
    /\ UNCHANGED <<cycles, expiries, last>>

\* variant: a failing producer leaves an empty list under its key
SourceFailedStoring(r, w) ==
    /\ th[r][w].pc \in {"src_fetch", "src_data"}
    /\ Effect([th EXCEPT ![r][w].pc = "fail", ![r][w].err = "Error",
                         ![r][w].up = "fail"], req,
              CacheSet(cache, KeyOf(r, w), <<>>, RouteExpire))
    /\ UNCHANGED <<cycles, expiries, last>>

\* a request of the producer throws: nothing is stored, the error propagates
SourceFailed(r, w) ==
    /\ th[r][w].pc \in {"src_fetch", "src_data"}
    /\ Threw(r, w, "Error")
    /\ UNCHANGED <<cycles, expiries, last>>

\* variant: the items of the probe page are returned, no second request
MediaProbedReturning(r) ==
    /\ th[r][Media].pc = "src_fetch"
    /\ Returned(r, Media, <<Tw(44, "", Media)>>,
                CacheSet(cache, KeyOf(r, Media), <<Tw(44, "", Media)>>,
                         RouteExpire))
    /\ UNCHANGED <<cycles, expiries, last>>

\* lines 158-167: the probe page carries a cursor of type 'Top'
MediaProbed(r) ==
    /\ th[r][Media].pc = "src_fetch"
    /\ th' = [th EXCEPT ![r][Media].pc = "src_data"]
    /\ UNCHANGED <<cache, req, cycles, expiries, last>>

\* line 167: no 'Top' cursor, find() gives undefined and .content throws
MediaNoTop(r) ==
    /\ th[r][Media].pc = "src_fetch"
    /\ Threw(r, Media, "Error")
    /\ UNCHANGED <<cycles, expiries, last>>

\* lines 168-179: the data-bearing UserMedia request answers
MediaData(r) ==
    /\ th[r][Media].pc = "src_data"
    /\ Returned(r, Media, Feed(Media),
                CacheSet(cache, KeyOf(r, Media), Feed(Media), RouteExpire))
    /\ UNCHANGED <<cycles, expiries, last>>

\* variant: the result is returned but not written through
MergeWithoutStore(r) ==
    /\ th[r]["main"].pc = "merge"
    /\ LET tweets == Pipeline(Backfill(req[r].cacheValue, req[r].tweets),
                              req[r].rest_id)
       IN  /\ req' = [req EXCEPT ![r].result = tweets, ![r].status = "returned"]
           /\ last' = IF req[r].quiet
                       THEN History(TRUE, <<req[r].handle, req[r].params>>,
                                    Ids(tweets),
                                    {w \in Sources : th[r][w].up = "fail"},
                                    {w \in Sources : th[r][w].up = "ok"})
                       ELSE NoHistory
    /\ th' = [th EXCEPT ![r]["main"].pc = "done"]
    /\ UNCHANGED <<cache, cycles, expiries>>

\* variant: an empty result is returned but not written
MergeSkippingEmpty(r) ==
    /\ th[r]["main"].pc = "merge"
    /\ LET tweets == Pipeline(Backfill(req[r].cacheValue, req[r].tweets),
                              req[r].rest_id)
       IN  /\ cache' = IF tweets = <<>> THEN cache
                       ELSE CacheSet(cache, AccKey(req[r].rest_id),
                                     Stringify(tweets), NoExpire)
           /\ req' = [req EXCEPT ![r].result = tweets, ![r].status = "returned",
                                 ![r].wrote = (tweets # <<>>)]
           /\ last' = NoHistory
    /\ th' = [th EXCEPT ![r]["main"].pc = "done"]
    /\ UNCHANGED <<cycles, expiries>>

\* variant: JSON.parse is not guarded, an unparsable entry ends the cycle
MergeRaisingOnCorrupt(r) ==
    /\ th[r]["main"].pc = "merge"
    /\ LET tweets == Pipeline(Backfill(req[r].cacheValue, req[r].tweets),
                              req[r].rest_id)
           bad == req[r].cacheValue.present /\ ~req[r].cacheValue.valid
       IN  /\ cache' = IF bad THEN cache
                       ELSE CacheSet(cache, AccKey(req[r].rest_id),
                                     Stringify(tweets), NoExpire)
           /\ req' = IF bad
                     THEN [req EXCEPT ![r].status = "raised", ![r].error = "Error"]
                     ELSE [req EXCEPT ![r].result = tweets,
                                      ![r].status = "returned", ![r].wrote = TRUE]
           /\ last' = NoHistory
    /\ th' = [th EXCEPT ![r]["main"].pc = "done"]
    /\ UNCHANGED <<cycles, expiries>>

\* lines 100-137: backfill, filter, dedup, sort, slice, cache.set, return
Merge(r) ==
    /\ th[r]["main"].pc = "merge"
    /\ LET tweets == Pipeline(Backfill(req[r].cacheValue, req[r].tweets),
                              req[r].rest_id)
       IN  /\ cache' = CacheSet(cache, AccKey(req[r].rest_id),
                                Stringify(tweets), NoExpire)
           /\ req' = [req EXCEPT ![r].result = tweets, ![r].status = "returned",
                                 ![r].wrote = TRUE]
           /\ last' = IF req[r].quiet
                       THEN History(TRUE, <<req[r].handle, req[r].params>>,
                                    Ids(tweets),
                                    {w \in Sources : th[r][w].up = "fail"},
                                    {w \in Sources : th[r][w].up = "ok"})
                       ELSE NoHistory
    /\ th' = [th EXCEPT ![r]["main"].pc = "done"]
    /\ UNCHANGED <<cycles, expiries>>

\* the promise of getUserTweets settles and the caller takes over: the frame
\* of the call is gone.  Nothing else reads it, so it is dropped before any
\* other step is taken (see Next).
Return(r) ==
    /\ th[r]["main"].pc = "done"
    /\ req' = [req EXCEPT ![r] = IdleReq]
    /\ th' = [th EXCEPT ![r] = [w \in Who |-> IdleThread]]
    /\ UNCHANGED <<cache, cycles, expiries, last>>

Returning == \E r \in Requests : th[r]["main"].pc = "done"

\* ------------------------------------------------------- time-to-live
\* An entry stored with a time-to-live is gone once the time has passed.
\* Nothing but the next lookup of its key can tell when that happened, so the
\* expiry is taken at that lookup: the lookup finds the entry expired, which
\* is a miss.  Entries stored without a time-to-live never expire.
Expired(key) ==
    /\ expiries < MaxExpiries
    /\ Has(cache, key)
    /\ cache[key].ttl # NoExpire
    /\ expiries' = expiries + 1

\* the identity entry has expired: the lookup goes upstream, or joins
UserDataExpired(r, w) ==
    /\ th[r][w].pc = "ud_get"
    /\ Expired(UserDataKey(req[r].handle))
    /\ cache' = CacheDel(cache, UserDataKey(req[r].handle))
    /\ th' = [th EXCEPT ![r][w].pc =
                IF Fetching(req[r].handle) = {} THEN "ud_fetch" ELSE "ud_wait"]
    /\ req' = Disturbed(req)
    /\ last' = NoHistory
    /\ UNCHANGED cycles

\* the per-source entry has expired: the producer is called
SourceExpired(r, w) ==
    /\ th[r][w].pc = "src_get"
    /\ Expired(KeyOf(r, w))
    /\ cache' = CacheDel(cache, KeyOf(r, w))
    /\ th' = [th EXCEPT ![r][w].pc = "src_fetch"]
    /\ req' = Disturbed(req)
    /\ last' = NoHistory
    /\ UNCHANGED cycles

Next ==
    \/ \E r \in Requests : Return(r)
    \/ ~Returning /\ \E r \in Requests, c \in Calls : Start(r, c[1], c[2])
    \/ ~Returning /\ \E r \in Requests, w \in Who : UserDataHit(r, w)
    \/ ~Returning /\ \E r \in Requests, w \in Who : UserDataMiss(r, w)
    \/ ~Returning /\ \E r \in Requests, w \in Who : UserDataJoin(r, w)
    \/ ~Returning /\ \E r \in Requests, w \in Who : UserDataFetched(r, w)
    \/ ~Returning /\ \E r \in Requests, w \in Who : UserDataFailed(r, w)
    \/ ~Returning /\ \E r \in Requests, w \in Sources : SourceHit(r, w)
    \/ ~Returning /\ \E r \in Requests, w \in Sources : SourceMiss(r, w)
    \/ ~Returning /\ \E r \in Requests, w \in Sources : SourceFetched(r, w)
    \/ ~Returning /\ \E r \in Requests, w \in Sources : SourceFailed(r, w)
    \/ ~Returning /\ \E r \in Requests : MediaProbed(r)
    \/ ~Returning /\ \E r \in Requests : MediaNoTop(r)
    \/ ~Returning /\ \E r \in Requests : MediaData(r)
    \/ ~Returning /\ \E r \in Requests : Merge(r)
    \/ ~Returning /\ \E r \in Requests, w \in Who : UserDataExpired(r, w)
    \/ ~Returning /\ \E r \in Requests, w \in Sources : SourceExpired(r, w)

Spec == Init /\ [][Next]_vars


\* =================================================================== claims
Done(r) == th[r]["main"].pc = "done"
Finished(r) == Done(r) /\ req[r].status = "returned"
Resolved(r) == req[r].rest_id # Undefined

IdOf(tweet) == BigInt(tweet.id_str)
IdSet(list) == {IdOf(list[i]) : i \in 1..Len(list)}
Eligible(tweet, rest_id) == ReplyFilter(tweet, rest_id) /\ HasId(tweet)
NoDuplicateIds(list) ==
    \A i, j \in 1..Len(list) : i # j => list[i].id_str # list[j].id_str

\* the tweet is in the result, or the result is a full page of larger ids
Kept(tweet, result) ==
    \/ IdOf(tweet) \in IdSet(result)
    \/ /\ Len(result) = PageSize
       /\ \A i \in 1..Len(result) : IdOf(result[i]) > IdOf(tweet)

\* the stored accumulation list a cycle read, <<>> when it used none
StoredList(r) ==
    LET c == req[r].cacheValue
    IN  IF c.present /\ c.valid /\ c.array THEN c.list ELSE <<>>

AllFailed(r) == \A w \in Sources : th[r][w].pc = "fail"


\* what each source call of the cycle gave to tweets (nothing when it threw)
Gave(r, w) == IF th[r][w].pc = "ok" THEN th[r][w].val ELSE <<>>

\* C1: whatever the three source calls do (return or throw), a cycle whose
\* handle resolved at line 72 returns without an error; tweets holds exactly
\* the items of the calls that returned (a call that threw gives nothing),
\* and every such item that passes the filters is in the result unless a
\* full page of larger ids is.
C1_SourceIsolation ==
    \A r \in Requests :
        Done(r) /\ Resolved(r) =>
            /\ req[r].status = "returned" /\ req[r].error = ""
            /\ req[r].tweets \in
                 {Gave(r, Primary) \o Gave(r, Media) \o Gave(r, Replies),
                  Gave(r, Media) \o Gave(r, Primary) \o Gave(r, Replies)}
            /\ \A w \in Sources : \A i \in 1..Len(Gave(r, w)) :
                  Eligible(Gave(r, w)[i], req[r].rest_id)
                      => Kept(Gave(r, w)[i], req[r].result)

\* the primary and the replies call threw, the media call returned, and the
\* media item is in the result
C1_Witness ==
    \E r \in Requests :
        /\ Finished(r) /\ Resolved(r)
        /\ th[r][Primary].pc = "fail" /\ th[r][Replies].pc = "fail"
        /\ th[r][Media].pc = "ok"
        /\ 45 \in IdSet(req[r].result)

\* C2 (as claimed): when the identity lookup of the handle answers without a
\* rest_id, getUserTweets ends by raising NotFound, without merging and
\* without writing to the accumulation cache.
C2_NotFoundReachesCaller ==
    \A r \in Requests :
        Done(r) /\ Directory[req[r].handle].rest_id = Undefined
                /\ req[r].error # "Error" =>
            /\ req[r].status = "raised"
            /\ req[r].error = "NotFound"
            /\ ~req[r].wrote

\* C3 (as claimed): the ids a cycle returns are the ids of the stored list
\* and of the feeds of the sources whose calls returned, filtered, deduped,
\* sorted descending and cut to a page.
UpstreamItems(r) ==
    LET f(w) == IF th[r][w].pc = "ok" THEN Feed(w) ELSE <<>>
    IN  f(Primary) \o f(Media) \o f(Replies)
C3_ResultIsMergeOfUpstream ==
    \A r \in Requests :
        Finished(r) /\ Resolved(r) =>
            Ids(req[r].result) =
                Ids(Pipeline(Backfill(req[r].cacheValue, UpstreamItems(r)),
                             req[r].rest_id))

\* C4 (as claimed): no two producers are in flight for one per-source key.
InFlight ==
    {x \in Requests \X Sources : th[x[1]][x[2]].pc \in {"src_fetch", "src_data"}}
C4_SingleFlight ==
    \A x, y \in InFlight : x # y => KeyOf(x[1], x[2]) # KeyOf(y[1], y[2])

\* C5 (as claimed): a source call returns only what its own producer
\* fetched, never the memoised result of another source.
C5_SourceSeparation ==
    \A r \in Requests, w \in Sources :
        th[r][w].pc = "ok" =>
            \A i \in 1..Len(th[r][w].val) : th[r][w].val[i].via = w

\* C6: a cycle that read a stored list returns without error; every stored
\* tweet is in the result unless the result is a full page of larger ids;
\* and when all three source calls threw the result has the stored ids.
C6_Backfill ==
    \A r \in Requests :
        Done(r) /\ StoredList(r) # <<>> =>
            /\ req[r].status = "returned" /\ req[r].error = ""
            /\ \A i \in 1..Len(StoredList(r)) :
                  Kept(StoredList(r)[i], req[r].result)
            /\ AllFailed(r) => Ids(req[r].result) = Ids(StoredList(r))

\* all three calls threw and the stored ids came back
C6_Witness ==
    \E r \in Requests :
        /\ Finished(r) /\ StoredList(r) # <<>> /\ AllFailed(r)
        /\ Ids(req[r].result) = Ids(StoredList(r))

\* C7: a cycle that runs immediately after a cycle of the same call (no
\* other request and no expiry since that one started), with every source
\* answering as before, returns the same id sequence and leaves the same id
\* sequence in the accumulation cache.
SameAnswers(r) ==
    \A w \in Sources :
        /\ th[r][w].up = "ok" => w \notin req[r].prev.failed
        /\ th[r][w].up = "fail" => w \notin req[r].prev.answered
Repeated(r) ==
    /\ Finished(r) /\ req[r].quiet /\ req[r].prev.live
    /\ req[r].prev.call = <<req[r].handle, req[r].params>>
    /\ SameAnswers(r)
C7_Idempotent ==
    \A r \in Requests :
        Repeated(r) =>
            /\ Ids(req[r].result) = req[r].prev.ids
            /\ Ids(CacheGet(cache, AccKey(req[r].rest_id)).list) = req[r].prev.ids

\* a repeated cycle whose predecessor fetched from two sources
C7_Witness ==
    \E r \in Requests :
        /\ Repeated(r)
        /\ {Primary, Media} \subseteq req[r].prev.answered
        /\ Len(req[r].result) > 3

\* C8: no two tweets of a result, or of the list written to the
\* accumulation cache, have the same id.
C8_NoDuplicates ==
    \A r \in Requests :
        Finished(r) =>
            /\ NoDuplicateIds(req[r].result)
            /\ NoDuplicateIds(CacheGet(cache, AccKey(req[r].rest_id)).list)

\* the stored list and the fetched tweets had an id in common
C8_Witness ==
    \E r \in Requests :
        /\ Finished(r) /\ Len(req[r].result) > 0
        /\ IdSet(StoredList(r)) \cap IdSet(req[r].tweets) # {}

\* C9: a result is strictly descending by the integer value of the ids.
C9_Descending ==
    \A r \in Requests :
        Finished(r) =>
            \A i, j \in 1..Len(req[r].result) :
                i < j => IdOf(req[r].result[i]) > IdOf(req[r].result[j])

\* a result with ids of different lengths (9 and 60)
C9_Witness ==
    \E r \in Requests :
        Finished(r) /\ {9, 60} \subseteq IdSet(req[r].result)

\* C10: every tweet of a result has no in_reply_to_user_id_str or the
\* rest_id of the handle.
C10_ReplyFilter ==
    \A r \in Requests :
        Finished(r) =>
            \A i \in 1..Len(req[r].result) :
                req[r].result[i].in_reply_to_user_id_str \in {"", req[r].rest_id}

\* a reply to another account was fetched, a reply to self is in the result
C10_Witness ==
    \E r \in Requests :
        /\ Finished(r)
        /\ \E i \in 1..Len(req[r].tweets) :
              req[r].tweets[i].in_reply_to_user_id_str = "222"
        /\ \E i \in 1..Len(req[r].result) :
              req[r].result[i].in_reply_to_user_id_str = req[r].rest_id

\* C11: a cycle reads the accumulation entry, merges, writes and returns only
\* when all three source calls have settled; a cycle that ended before its
\* source calls settled (the identity lookup of line 72 threw) wrote nothing.
AllSettled(r) == \A w \in Sources : Settled(th[r][w])
C11_MergeAfterAllSettled ==
    \A r \in Requests :
        /\ \/ th[r]["main"].pc = "merge"
           \/ req[r].cacheValue.present
           \/ req[r].wrote
           \/ req[r].status = "returned"
           => AllSettled(r)
        /\ Done(r) /\ ~AllSettled(r) => req[r].status = "raised" /\ ~req[r].wrote

\* a cycle wrote and returned after its primary call returned and its media
\* and replies calls threw
C11_Witness ==
    \E r \in Requests :
        /\ Finished(r) /\ req[r].wrote
        /\ th[r][Primary].pc = "ok"
        /\ th[r][Media].pc = "fail" /\ th[r][Replies].pc = "fail"

\* C12: a cycle that returned has left, under the accumulation key of its
\* rest_id, exactly the list it returns, also when that list is empty, and
\* stored it without a time-to-live; no accumulation entry has one.
IsAccKey(k) == k[1] = "twitter:user:tweets-cache"
C12_WriteThrough ==
    /\ \A r \in Requests :
          Finished(r) =>
              /\ req[r].wrote
              /\ Has(cache, AccKey(req[r].rest_id))
              /\ cache[AccKey(req[r].rest_id)].v = Stringify(req[r].result)
    /\ \A k \in DOMAIN cache : IsAccKey(k) => cache[k].ttl = NoExpire

\* a cycle of a resolved handle that found an unparsable entry, got nothing
\* from its sources, and left the empty list in its place
C12_Witness ==
    \E r \in Requests :
        /\ Finished(r) /\ Resolved(r) /\ req[r].result = <<>>
        /\ req[r].cacheValue = Garbage
        /\ cache[AccKey(req[r].rest_id)].v = Stringify(<<>>)

\* C13: whenever a cacheTryGet call throws NotFound, the identity key of its
\* handle then holds the sentinel under contentExpire; and a cacheTryGet call
\* that looks up a handle whose entry resolves to no rest_id, the entry not
\* having expired, throws NotFound at once: it neither starts nor joins an
\* upstream identity lookup.
ThrowsNotFound(r, w) ==
    /\ th[r][w].pc # "fail"
    /\ th'[r][w].pc = "fail" /\ th'[r][w].err = "NotFound"
LooksUpUnresolvable(r, w) ==
    /\ th[r][w].pc = "ud_get"
    /\ Has(cache, UserDataKey(req[r].handle))
    /\ RestId(cache[UserDataKey(req[r].handle)].v) = Undefined
    /\ expiries' = expiries
    /\ th'[r][w] # th[r][w]
C13_NegativeCaching ==
    [][\A r \in Requests, w \in Sources :
          /\ ThrowsNotFound(r, w) =>
                /\ Has(cache', UserDataKey(req[r].handle))
                /\ cache'[UserDataKey(req[r].handle)] =
                       [v |-> Sentinel, ttl |-> ContentExpire]
          /\ LooksUpUnresolvable(r, w) => ThrowsNotFound(r, w)]_vars

\* with no entry expired, the primary call threw NotFound and the replies
\* call, which starts after it, threw NotFound too; the sentinel is stored
C13_Witness ==
    \E r \in Requests :
        /\ expiries = 0
        /\ th[r][Primary].pc = "fail" /\ th[r][Primary].err = "NotFound"
        /\ th[r][Replies].pc = "fail" /\ th[r][Replies].err = "NotFound"
        /\ CacheGet(cache, UserDataKey(req[r].handle)) = Sentinel

\* C14: a producer that throws leaves the entry of its key as it was (nothing
\* is stored); a producer that returns leaves its result under the key with
\* routeExpire; a call that looks its key up, no entry having expired at that
\* lookup, returns the stored value without calling the producer when the key
\* has an entry, and calls the producer when it has none.
ProducerRunning(r, w) == th[r][w].pc \in {"src_fetch", "src_data"}
C14_OutcomeHandling ==
    [][\A r \in Requests, w \in Sources :
          /\ ProducerRunning(r, w) /\ th'[r][w].pc = "fail" =>
                /\ Has(cache', KeyOf(r, w)) = Has(cache, KeyOf(r, w))
                /\ Has(cache, KeyOf(r, w)) =>
                       cache'[KeyOf(r, w)] = cache[KeyOf(r, w)]
          /\ ProducerRunning(r, w) /\ th'[r][w].pc = "ok" =>
                /\ Has(cache', KeyOf(r, w))
                /\ cache'[KeyOf(r, w)] =
                       [v |-> th'[r][w].val, ttl |-> RouteExpire]
          /\ /\ th[r][w].pc = "src_get"
             /\ th'[r][w] # th[r][w]
             /\ expiries' = expiries
             => IF Has(cache, KeyOf(r, w))
                THEN /\ th'[r][w].pc = "ok"
                     /\ th'[r][w].val = cache[KeyOf(r, w)].v
                     /\ th'[r][w].up = ""
                ELSE th'[r][w].pc = "src_fetch"]_vars

\* the producers of a cycle's primary and media calls threw, its replies call
\* (same key) then called its producer, which returned; with no entry
\* expired, the primary call of another request for the key returned the
\* stored items without calling its producer
C14_Witness ==
    \E r, q \in Requests :
        /\ r # q /\ expiries = 0
        /\ th[r][Primary].up = "fail" /\ th[r][Media].up = "fail"
        /\ th[r][Replies].pc = "ok" /\ th[r][Replies].up = "ok"
        /\ th[q][Primary].pc = "ok" /\ th[q][Primary].up = ""
        /\ KeyOf(q, Primary) = KeyOf(r, Replies)
        /\ th[q][Primary].val = th[r][Replies].val

\* C15: a cycle that read an accumulation text which does not parse, or
\* parses to something that is not a non-empty array, returns without error
\* the pipeline of its fetched tweets alone, and leaves that list in place of
\* the text.
Corrupt(cacheValue) ==
    /\ cacheValue.present
    /\ ~cacheValue.valid \/ ~cacheValue.array \/ cacheValue.list = <<>>
C15_CorruptionRecovery ==
    \A r \in Requests :
        Done(r) /\ Corrupt(req[r].cacheValue) =>
            /\ req[r].status = "returned" /\ req[r].error = ""
            /\ req[r].result = Pipeline(req[r].tweets, req[r].rest_id)
            /\ CacheGet(cache, AccKey(req[r].rest_id)) = Stringify(req[r].result)

\* a cycle that read an unparsable text and returned fetched tweets
C15_Witness ==
    \E r \in Requests :
        /\ Finished(r) /\ req[r].cacheValue = Garbage
        /\ Len(req[r].result) > 0
        /\ CacheGet(cache, AccKey(req[r].rest_id)) = Stringify(req[r].result)

\* C16 (as claimed): a call never reads an entry that a call with another
\* parameter set wrote: a cycle that runs right after a cycle of the same
\* handle with other params (nothing in between) does not find, under its
\* accumulation key, the list that cycle stored.
AfterOtherParams(r) ==
    /\ req[r].quiet /\ req[r].prev.live
    /\ req[r].prev.call[1] = req[r].handle
    /\ req[r].prev.call[2] # req[r].params
C16_ParamsSeparateEntries ==
    \A r \in Requests :
        AfterOtherParams(r) /\ th[r]["main"].pc \in {"merge", "done"} =>
            ~ /\ req[r].cacheValue.present /\ req[r].cacheValue.valid
              /\ req[r].prev.ids # <<>>
              /\ Ids(req[r].cacheValue.list) = req[r].prev.ids

\* C17: a getUserMedia producer never returns from its first request: after
\* it the producer either goes on to the data-bearing request or throws; the
\* items a producer returns are those of the data-bearing request; and a
\* getUserMedia call that throws adds nothing to tweets.
C17_MediaTwoPhase ==
    [][\A r \in Requests :
          /\ th[r][Media].pc = "src_fetch" /\ th'[r][Media] # th[r][Media] =>
                th'[r][Media].pc \in {"src_data", "fail"}
          /\ /\ th[r][Media].pc # "ok" /\ th'[r][Media].pc = "ok"
             /\ th'[r][Media].up = "ok"
             => /\ th[r][Media].pc = "src_data"
                /\ th'[r][Media].val = Feed(Media)
          /\ th[r][Media].pc # "fail" /\ th'[r][Media].pc = "fail" =>
                /\ th'[r][Media].val = <<>>
                /\ req'[r].tweets = req[r].tweets]_vars

\* a getUserMedia call missed, made both requests and returned the media items
C17_Witness ==
    \E r \in Requests :
        /\ th[r][Media].pc = "ok" /\ th[r][Media].up = "ok"
        /\ th[r][Media].val = Feed(Media)
        /\ 45 \in IdSet(req[r].tweets)

\* C18: no result, and no list left in the accumulation cache by a cycle, is
\* longer than the page size.
C18_PageSize ==
    \A r \in Requests :
        Finished(r) =>
            /\ Len(req[r].result) <= PageSize
            /\ Len(CacheGet(cache, AccKey(req[r].rest_id)).list) <= PageSize

\* stored and fetched tweets had more than a page of distinct eligible ids,
\* and the result is a full page
C18_Witness ==
    \E r \in Requests :
        /\ Finished(r) /\ Len(req[r].result) = PageSize
        /\ Cardinality(IdSet(Filter(StoredList(r) \o req[r].tweets,
                                    req[r].rest_id))) > PageSize

\* C19: every tweet of a result is the first tweet of its id in merge order,
\* the stored list followed by the fetched tweets (fan-out calls before the
\* replies call): for an id both stored and fetched, the stored tweet; for an
\* id given by a fan-out call and by the replies call, the fan-out call's.
\* The same list is written back.
FirstWithId(list, id_str) ==
    list[CHOOSE i \in 1..Len(list) :
            /\ list[i].id_str = id_str
            /\ \A j \in 1..(i - 1) : list[j].id_str # id_str]
InList(tweet, list) == \E i \in 1..Len(list) : list[i] = tweet
C19_FirstOccurrenceKept ==
    \A r \in Requests :
        Finished(r) =>
            /\ \A i \in 1..Len(req[r].result) :
                  LET t == req[r].result[i]
                  IN  /\ t = FirstWithId(StoredList(r) \o req[r].tweets, t.id_str)
                      /\ IdOf(t) \in IdSet(StoredList(r)) =>
                             InList(t, StoredList(r))
                      /\ /\ IdOf(t) \notin IdSet(StoredList(r))
                         /\ \E w \in FanOut : IdOf(t) \in IdSet(Gave(r, w))
                         => \E w \in FanOut : InList(t, Gave(r, w))
            /\ CacheGet(cache, AccKey(req[r].rest_id)).list = req[r].result

\* id 30 was stored (as a media item) and fetched (as a primary item); the
\* result has the stored one
C19_Witness ==
    \E r \in Requests :
        /\ Finished(r)
        /\ InList(Tw(30, "", Primary), req[r].tweets)
        /\ InList(Tw(30, "", Media), StoredList(r))
        /\ InList(Tw(30, "", Media), req[r].result)

\* C20 (as claimed): whenever a cycle replaces a list stored under an
\* accumulation key, the largest id of the new list is not below that of the
\* old one, and every tweet of the old list is in the new one unless the new
\* one is a full page of larger ids.
IsList(text) == text.present /\ text.valid /\ text.array
LargestId(list) == CHOOSE m \in IdSet(list) : \A n \in IdSet(list) : n <= m
C20_NoRegression ==
    [][\A k \in DOMAIN cache :
          /\ IsAccKey(k) /\ IsList(cache[k].v)
          /\ k \in DOMAIN cache' /\ cache'[k] # cache[k]
          => LET old == cache[k].v.list
                 new == cache'[k].v.list
             IN  /\ \A i \in 1..Len(old) : Kept(old[i], new)
                 /\ old # <<>> =>
                        new # <<>> /\ LargestId(new) >= LargestId(old)]_vars

====
